---- MODULE Spec2Model ----
(***************************************************************************)
(* Iris classifier service: the FastAPI facade (app/api.py), its request   *)
(* instrumentation (app/metrics.py), the prediction log store              *)
(* (app/database.py) and the training pipeline                             *)
(* (train/main_loop_models.py), as a state machine.                        *)
(*                                                                         *)
(* Numbers are scaled to integers: a probability p is held as 100 * p, a   *)
(* latency as whole milliseconds, a timestamp as a tick of the wall clock. *)
(* The wall clock is not monotonic, so a measured latency may be negative. *)
(***************************************************************************)
EXTENDS Integers, Sequences, FiniteSets, TLC

\* ------------------------------------------------------------------------
\* Bounds of the model
\* ------------------------------------------------------------------------
MaxBatch == 2        \* rows in one predict-batch request
MaxRequests == 1     \* HTTP requests served after startup
MaxRows == 2         \* rows direct log_prediction calls may fill the table to
MaxConnections == 2  \* requests the server process holds at one time

\* ------------------------------------------------------------------------
\* Program constants
\* ------------------------------------------------------------------------
NumFeatures == 4     \* PredictRequest.features min_items = max_items = 4
NumClasses == 3      \* iris classes 0, 1, 2

None == 0             \* model = None: no classifier is loaded

\* Input domains. Latencies holds a negative value: time.time() may step back
\* between the two readings.
FeatVals == {0, 1}
RowLengths == (NumFeatures - 1)..(NumFeatures + 1)
Latencies == {0 - 1, 0, 1}
Times == {1, 2}
Limits == {0 - 1, 0, 1, 100}
Classifiers == {1, 2}
AppendIds == {100 + i : i \in 1..MaxRows}
Environments == {"dev", "prod"}
CanaryValues == {100, 150}
MODEL_NAME == "iris-logistic-regression"

Row(n, v) == [i \in 1..n |-> IF i = 1 THEN v ELSE 1]

\* feature vectors a client may send: the well-formed ones and one short
\* and one long one
FeatureRows ==
    {Row(NumFeatures, v) : v \in FeatVals} \cup {Row(n, 0) : n \in RowLengths}

RECURSIVE SeqsUpTo(_, _)
SeqsUpTo(S, n) ==
    IF n = 0 THEN {<<>>}
    ELSE LET shorter == SeqsUpTo(S, n - 1)
         IN  shorter \cup {Append(s, x) : s \in {t \in shorter : Len(t) = n - 1}, x \in S}

Batches == SeqsUpTo(FeatureRows, MaxBatch)

RECURSIVE Sum(_)
Sum(s) == IF s = <<>> THEN 0 ELSE Head(s) + Sum(Tail(s))

RECURSIVE SeqMax(_)
SeqMax(s) ==
    IF Len(s) = 1 THEN s[1]
    ELSE LET m == SeqMax(Tail(s)) IN IF s[1] >= m THEN s[1] ELSE m

\* ------------------------------------------------------------------------
\* State
\* ------------------------------------------------------------------------
VARIABLES
    ENVIRONMENT,        \* os.getenv("ENVIRONMENT", "dev")
    CANARY_PERCENTAGE,  \* int(os.getenv("CANARY_PERCENTAGE", "100"))
    started,            \* the startup event has run
    model,              \* the global model handle: None or a classifier
    MODEL_VERSION,
    MODEL_LOADED,       \* gauge: -1 never set, 0, 1
    REQUEST_COUNT,      \* counter by <<endpoint, status>>
    REQUEST_LATENCY,    \* number of observations by endpoint
    ERRORS_TOTAL,       \* counter by endpoint (error_type is HTTPException)
    PREDICTIONS_TOTAL,  \* counter by predicted class
    BATCH_SIZE,         \* the observed batch sizes, in order
    SYSTEM_SAMPLED,     \* update_system_metrics has set the system gauges
    table_exists,       \* the predictions table exists in the store
    indexes,            \* the indexes that exist on the predictions table
    predictions,        \* rows of the predictions table, in insertion order
    appended,           \* history: the arguments of the log_prediction calls
                        \* that returned True, in order
    main_pc,            \* position of main() of the training pipeline
    runs,               \* the MLflow runs of the pipeline and their status
    all_results,        \* the results collected by run_all_models_loop
    best_result,        \* the result main() selected, or None
    registry,           \* the versions of the MLflow model registry
    registered,         \* what register_best_model returned to main(), or None
    connections,        \* the requests held by the server process: for each
                        \* the endpoint and how far its handler has come
    nreq,               \* requests served so far
    request,            \* the last request
    response            \* the response the client got for it

vars == <<ENVIRONMENT, CANARY_PERCENTAGE, started, model, MODEL_VERSION,
          MODEL_LOADED, REQUEST_COUNT, REQUEST_LATENCY, ERRORS_TOTAL,
          PREDICTIONS_TOTAL, BATCH_SIZE, SYSTEM_SAMPLED, table_exists,
          indexes, predictions, appended, main_pc, runs, all_results,
          best_result, registry, registered, connections, nreq, request,
          response>>

config == <<ENVIRONMENT, CANARY_PERCENTAGE>>
handle == <<model, MODEL_VERSION, MODEL_LOADED>>
recorder == <<REQUEST_COUNT, REQUEST_LATENCY, ERRORS_TOTAL, PREDICTIONS_TOTAL,
              BATCH_SIZE, SYSTEM_SAMPLED>>
store == <<table_exists, indexes, predictions, appended>>
training == <<main_pc, runs, all_results, best_result, registry, registered>>

\* idx_predictions_request_id and idx_predictions_timestamp
IndexNames == {"idx_predictions_request_id", "idx_predictions_timestamp"}

Endpoints == {"/healthz", "/predict", "/predict-batch", "/metrics", "/logs", "/info"}
Statuses == {200, 422, 500, 503}

\* a request, with what its execution met: fault, an exception raised by the
\* classifier; elapsed, the difference of the two wall-clock readings
Req(endpoint, wellTyped, features, limit, fault, elapsed) ==
    [endpoint |-> endpoint, wellTyped |-> wellTyped, features |-> features,
     limit |-> limit, fault |-> fault, elapsed |-> elapsed]

\* a connection without a request
Closed == [endpoint |-> "none", phase |-> "closed"]

NoRequest == Req("none", TRUE, <<>>, 0, FALSE, 0)
NoResponse == [status |-> 0, body |-> [detail |-> "none"]]

Init ==
    /\ ENVIRONMENT \in Environments
    /\ CANARY_PERCENTAGE \in CanaryValues
    /\ started = FALSE
    /\ model = None
    /\ MODEL_VERSION = "0.0.0"
    /\ MODEL_LOADED = 0 - 1
    /\ REQUEST_COUNT = [k \in Endpoints \X Statuses |-> 0]
    /\ REQUEST_LATENCY = [e \in Endpoints |-> 0]
    /\ ERRORS_TOTAL = [e \in Endpoints |-> 0]
    /\ PREDICTIONS_TOTAL = [c \in 0..(NumClasses - 1) |-> 0]
    /\ BATCH_SIZE = <<>>
    /\ SYSTEM_SAMPLED = FALSE
    /\ table_exists \in BOOLEAN
    /\ indexes \in (IF table_exists THEN {{}, IndexNames} ELSE {{}})
    /\ predictions = <<>>
    /\ appended = <<>>
    /\ main_pc = "start"
    /\ runs = <<>>
    /\ all_results = <<>>
    /\ best_result = None
    /\ registry = <<>>
    /\ registered = None
    /\ connections = [c \in 1..MaxConnections |-> Closed]
    /\ nreq = 0
    /\ request = NoRequest
    /\ response = NoResponse

\* ------------------------------------------------------------------------
\* The loaded classifier (the unpickled estimator behind model.predict and
\* model.predict_proba)
\* ------------------------------------------------------------------------
ModelPredict(m, x) == (Sum(x) + m) % NumClasses

ModelPredictProba(m, x) ==
    LET hi == IF m = 1 THEN 60 + 10 * (Sum(x) % 2) ELSE 100
    IN  [c \in 1..NumClasses |->
            IF c - 1 = ModelPredict(m, x) THEN hi ELSE (100 - hi) \div 2]

\* ------------------------------------------------------------------------
\* startup_event
\* ------------------------------------------------------------------------
set_model_loaded_AlwaysOne(loaded) == MODEL_LOADED' = 1

set_model_loaded(loaded) == MODEL_LOADED' = (IF loaded THEN 1 ELSE 0)

startup_event_AtAnyTime ==
    /\ started' = TRUE
    /\ \/ \E m \in Classifiers :
             /\ model' = m
             /\ MODEL_VERSION' = "1.0.0"
             /\ set_model_loaded(TRUE)
       \/ /\ model' = None
          /\ MODEL_VERSION' = "0.0.0"
          /\ set_model_loaded(FALSE)
    /\ UNCHANGED <<config, connections, training, recorder, store, nreq, request, response>>

startup_event ==
    /\ ~started
    /\ started' = TRUE
    /\ \/ \E m \in Classifiers :
             /\ model' = m
             /\ MODEL_VERSION' = "1.0.0"
             /\ set_model_loaded(TRUE)
       \/ /\ model' = None
          /\ MODEL_VERSION' = "0.0.0"
          /\ set_model_loaded(FALSE)
    /\ UNCHANGED <<config, connections, training, recorder, store, nreq, request, response>>

\* ------------------------------------------------------------------------
\* track_request: the wrapper around every handler
\* ------------------------------------------------------------------------
track_request_CountsEveryRequestAsError(endpoint, status, raised) ==
    /\ ERRORS_TOTAL' = [ERRORS_TOTAL EXCEPT ![endpoint] = @ + 1]
    /\ REQUEST_LATENCY' = [REQUEST_LATENCY EXCEPT ![endpoint] = @ + 1]
    /\ REQUEST_COUNT' = [REQUEST_COUNT EXCEPT ![<<endpoint, status>>] = @ + 1]
    /\ SYSTEM_SAMPLED' = TRUE

track_request_Status200(endpoint, status, raised) ==
    /\ ERRORS_TOTAL' = IF raised THEN [ERRORS_TOTAL EXCEPT ![endpoint] = @ + 1]
                       ELSE ERRORS_TOTAL
    /\ REQUEST_LATENCY' = [REQUEST_LATENCY EXCEPT ![endpoint] = @ + 1]
    /\ REQUEST_COUNT' = [REQUEST_COUNT EXCEPT ![<<endpoint, 200>>] = @ + 1]
    /\ SYSTEM_SAMPLED' = TRUE

\* update_system_metrics, called last, sets the system gauges
track_request(endpoint, status, raised) ==
    /\ ERRORS_TOTAL' = IF raised THEN [ERRORS_TOTAL EXCEPT ![endpoint] = @ + 1]
                       ELSE ERRORS_TOTAL
    /\ REQUEST_LATENCY' = [REQUEST_LATENCY EXCEPT ![endpoint] = @ + 1]
    /\ REQUEST_COUNT' = [REQUEST_COUNT EXCEPT ![<<endpoint, status>>] = @ + 1]
    /\ SYSTEM_SAMPLED' = TRUE

Serve(req, status, body) ==
    /\ nreq' = nreq + 1
    /\ request' = req
    /\ response' = [status |-> status, body |-> body]

Get(endpoint) == Req(endpoint, TRUE, <<>>, 0, FALSE, 0)

\* a request that went to the log store, with whether it got a connection
Met(req, conn_ok) == req @@ ("conn_ok" :> conn_ok)

\* ------------------------------------------------------------------------
\* GET /healthz
\* ------------------------------------------------------------------------
healthz_AlwaysOk ==
    /\ started /\ nreq < MaxRequests
    /\ track_request("/healthz", 200, FALSE)
    /\ Serve(Get("/healthz"), 200,
             [status |-> "ok", environment |-> ENVIRONMENT, model |-> MODEL_NAME])
    /\ UNCHANGED <<config, connections, training, started, handle, PREDICTIONS_TOTAL, BATCH_SIZE, store>>

healthz ==
    /\ started /\ nreq < MaxRequests
    /\ IF model = None
       THEN /\ track_request("/healthz", 503, TRUE)
            /\ Serve(Get("/healthz"), 503, [detail |-> "Model not loaded yet"])
       ELSE /\ track_request("/healthz", 200, FALSE)
            /\ Serve(Get("/healthz"), 200,
                     [status |-> "ok", environment |-> ENVIRONMENT, model |-> MODEL_NAME])
    /\ UNCHANGED <<config, connections, training, started, handle, PREDICTIONS_TOTAL, BATCH_SIZE, store>>

\* ------------------------------------------------------------------------
\* The prediction log store (app/database.py)
\* ------------------------------------------------------------------------
DB_DRIVER == IF ENVIRONMENT # "prod" THEN "sqlite" ELSE "postgres"

\* json.dumps of a list of numbers, as a sequence of tokens: the numbers
\* themselves (non-negative here) and the punctuation below
LBRACKET == 0 - 1
RBRACKET == 0 - 2
COMMA == 0 - 3

RECURSIVE JsonItems(_)
JsonItems(f) ==
    IF f = <<>> THEN <<>>
    ELSE IF Len(f) = 1 THEN <<f[1]>>
    ELSE <<f[1], COMMA>> \o JsonItems(Tail(f))

json_dumps(f) == <<LBRACKET>> \o JsonItems(f) \o <<RBRACKET>>

RECURSIVE JsonParseItems(_)
JsonParseItems(t) ==
    IF t = <<>> THEN <<>>
    ELSE IF Head(t) = COMMA THEN JsonParseItems(Tail(t))
    ELSE <<Head(t)>> \o JsonParseItems(Tail(t))

json_loads(t) == JsonParseItems(SubSeq(t, 2, Len(t) - 1))

RequestIds(rows) == {rows[i].request_id : i \in 1..Len(rows)}

\* the arguments of one log_prediction call
PredictionArgs(request_id, model_name, model_version, features, prediction, probability, latency_ms, timestamp) ==
    [request_id |-> request_id, model_name |-> model_name,
     model_version |-> model_version, features |-> features,
     prediction |-> prediction, probability |-> probability,
     latency_ms |-> latency_ms, timestamp |-> timestamp]

\* the timestamp column: TEXT in sqlite, where the datetime is written as its
\* text and read back as a str; TIMESTAMP in postgres, read back as a datetime
SqlTimestamp(driver, timestamp) ==
    [type |-> IF driver = "sqlite" THEN "str" ELSE "datetime", value |-> timestamp]

\* the features column: the JSON text in sqlite, a FLOAT8[] in postgres
SqlFeatures(driver, features) ==
    IF driver = "sqlite" THEN json_dumps(features) ELSE features

InsertInto_TrueOnFailure(driver, exists, rows, conn_ok, a) ==
    IF ~conn_ok \/ ~exists \/ a.request_id \in RequestIds(rows)
    THEN [ret |-> conn_ok, raised |-> FALSE, rows |-> rows]
    ELSE [ret |-> TRUE, raised |-> FALSE,
          rows |-> Append(rows,
                     [id |-> Len(rows) + 1,
                      request_id |-> a.request_id,
                      model_name |-> a.model_name,
                      model_version |-> a.model_version,
                      features |-> SqlFeatures(driver, a.features),
                      prediction |-> a.prediction,
                      probability |-> a.probability,
                      latency_ms |-> a.latency_ms,
                      timestamp |-> SqlTimestamp(driver, a.timestamp)])]

InsertInto_Replaces(driver, exists, rows, conn_ok, a) ==
    IF ~conn_ok \/ ~exists
    THEN [ret |-> FALSE, raised |-> FALSE, rows |-> rows]
    ELSE [ret |-> TRUE, raised |-> FALSE,
          rows |-> Append(SelectSeq(rows, LAMBDA r : r.request_id # a.request_id),
                     [id |-> Len(rows) + 1,
                      request_id |-> a.request_id,
                      model_name |-> a.model_name,
                      model_version |-> a.model_version,
                      features |-> SqlFeatures(driver, a.features),
                      prediction |-> a.prediction,
                      probability |-> a.probability,
                      latency_ms |-> a.latency_ms,
                      timestamp |-> SqlTimestamp(driver, a.timestamp)])]

InsertInto_NoUnique(driver, exists, rows, conn_ok, a) ==
    IF ~conn_ok \/ ~exists
    THEN [ret |-> FALSE, raised |-> FALSE, rows |-> rows]
    ELSE [ret |-> TRUE, raised |-> FALSE,
          rows |-> Append(rows,
                     [id |-> Len(rows) + 1,
                      request_id |-> a.request_id,
                      model_name |-> a.model_name,
                      model_version |-> a.model_version,
                      features |-> SqlFeatures(driver, a.features),
                      prediction |-> a.prediction,
                      probability |-> a.probability,
                      latency_ms |-> a.latency_ms,
                      timestamp |-> SqlTimestamp(driver, a.timestamp)])]

\* INSERT INTO predictions ... and commit, by a backend: the value
\* log_prediction returns, whether an exception escaped it, and the rows of
\* the table afterwards. A failed connection gives None and a failed insert
\* (no table, a request_id already stored: request_id is UNIQUE) is caught
\* and rolled back.
InsertInto(driver, exists, rows, conn_ok, a) ==
    IF ~conn_ok
    THEN [ret |-> FALSE, raised |-> FALSE, rows |-> rows]
    ELSE IF ~exists \/ a.request_id \in RequestIds(rows)
    THEN [ret |-> FALSE, raised |-> FALSE, rows |-> rows]
    ELSE [ret |-> TRUE, raised |-> FALSE,
          rows |-> Append(rows,
                     [id |-> Len(rows) + 1,
                      request_id |-> a.request_id,
                      model_name |-> a.model_name,
                      model_version |-> a.model_version,
                      features |-> SqlFeatures(driver, a.features),
                      prediction |-> a.prediction,
                      probability |-> a.probability,
                      latency_ms |-> a.latency_ms,
                      timestamp |-> SqlTimestamp(driver, a.timestamp)])]

log_prediction_Raises(conn_ok, request_id, model_name, model_version, features, prediction, probability, latency_ms, timestamp) ==
    [ret |-> FALSE, raised |-> ~conn_ok \/ ~table_exists, rows |-> predictions]

log_prediction(conn_ok, request_id, model_name, model_version, features, prediction, probability, latency_ms, timestamp) ==
    InsertInto(DB_DRIVER, table_exists, predictions, conn_ok,
               PredictionArgs(request_id, model_name, model_version, features,
                              prediction, probability, latency_ms, timestamp))

\* the orders in which ORDER BY timestamp DESC may return the rows: SQL
\* leaves the order of rows with equal timestamps open
Orderings(n) == {p \in [1..n -> 1..n] : \A i, j \in 1..n : i # j => p[i] # p[j]}

OrderByTimestampDesc(rows) ==
    {[i \in 1..Len(rows) |-> rows[p[i]]] :
        p \in {q \in Orderings(Len(rows)) :
                 \A i, j \in 1..Len(rows) :
                    i < j => rows[q[i]].timestamp.value >= rows[q[j]].timestamp.value}}

\* LIMIT n: a negative limit means no limit in sqlite
SqlLimit(rows, limit) ==
    IF limit < 0 THEN rows
    ELSE SubSeq(rows, 1, IF limit < Len(rows) THEN limit ELSE Len(rows))

RowDict_FeaturesReversed(driver, row) ==
    IF driver = "sqlite"
    THEN [row EXCEPT !.features =
            [i \in 1..Len(json_loads(row.features)) |->
                json_loads(row.features)[Len(json_loads(row.features)) + 1 - i]]]
    ELSE row

\* dict(row), with the features text parsed when the backend is sqlite
RowDict(driver, row) ==
    IF driver = "sqlite"
    THEN [row EXCEPT !.features = json_loads(row.features)]
    ELSE row

Select_Unsorted(driver, exists, rows, conn_ok, limit) ==
    IF ~conn_ok \/ ~exists \/ (driver = "postgres" /\ limit < 0) THEN {<<>>}
    ELSE {[i \in 1..Len(SqlLimit(rows, limit)) |-> RowDict(driver, SqlLimit(rows, limit)[i])]}

\* SELECT * FROM predictions ORDER BY timestamp DESC LIMIT limit, by a
\* backend: the lists get_predictions may return. No connection, no table
\* and, in postgres, a negative LIMIT (an error of the statement) give [].
Select(driver, exists, rows, conn_ok, limit) ==
    IF ~conn_ok THEN {<<>>}
    ELSE IF ~exists THEN {<<>>}
    ELSE IF driver = "postgres" /\ limit < 0 THEN {<<>>}
    ELSE {[i \in 1..Len(SqlLimit(sorted, limit)) |-> RowDict(driver, SqlLimit(sorted, limit)[i])] :
            sorted \in OrderByTimestampDesc(rows)}

get_predictions(conn_ok, limit) ==
    Select(DB_DRIVER, table_exists, predictions, conn_ok, limit)

\* cursor.fetchall(): the engine returns one of the permitted lists, the same
\* one whenever the same statement runs over the same table
fetchall(results) == CHOOSE logs \in results : TRUE

\* a direct call of the store, as the last request, and what it returned
StoreCall(op, conn_ok, limit, args) ==
    [endpoint |-> op, conn_ok |-> conn_ok, limit |-> limit, args |-> args]

NoArgs == PredictionArgs(0, "", "", <<>>, 0, 0, 0, 0)

init_db_DropsTable ==
    /\ \E conn_ok \in BOOLEAN :
          /\ table_exists' = (conn_ok \/ table_exists)
          /\ indexes' = (IF conn_ok THEN IndexNames ELSE indexes)
          /\ predictions' = (IF conn_ok THEN <<>> ELSE predictions)
          /\ request' = StoreCall("init_db", conn_ok, 0, NoArgs)
          /\ response' = [ret |-> conn_ok]
    /\ UNCHANGED <<config, connections, training, started, handle, recorder, appended, nreq>>

\* init_db: CREATE TABLE IF NOT EXISTS and the two CREATE INDEX IF NOT
\* EXISTS, committed together; False when there is no connection
init_db ==
    /\ \E conn_ok \in BOOLEAN :
          /\ table_exists' = (conn_ok \/ table_exists)
          /\ indexes' = (IF conn_ok THEN indexes \cup IndexNames ELSE indexes)
          /\ request' = StoreCall("init_db", conn_ok, 0, NoArgs)
          /\ response' = [ret |-> conn_ok]
    /\ UNCHANGED <<config, connections, training, started, handle, recorder, predictions, appended, nreq>>

\* ------------------------------------------------------------------------
\* POST /predict
\* ------------------------------------------------------------------------
PredictRequests ==
    {Req("/predict", TRUE, f, 0, fault, elapsed) :
        f \in FeatureRows, fault \in BOOLEAN, elapsed \in Latencies}
    \cup {Req("/predict", FALSE, <<>>, 0, FALSE, 0)}

\* PredictRequest: features is a List[float] with min_items = max_items = 4;
\* FastAPI answers 422 itself when the body does not validate
PredictRequestValid_NoMaxItems(req) ==
    /\ req.wellTyped
    /\ Len(req.features) >= NumFeatures

PredictRequestValid(req) ==
    /\ req.wellTyped
    /\ Len(req.features) >= NumFeatures
    /\ Len(req.features) <= NumFeatures

ModelUnavailable_Never(m) == FALSE

\* "if model is None" at the head of predict and of predict_batch
ModelUnavailable(m) == m = None

np_max_First(probabilities) == probabilities[1]

np_max(probabilities) == SeqMax(probabilities)

\* PredictResponse as response_model: the returned dict is validated against
\* the declared fields and only those are serialized
PredictResponseFields == {"prediction", "probability", "latency_ms", "model", "version"}

PredictResponseValid(result) ==
    /\ PredictResponseFields \subseteq DOMAIN result
    /\ result.probability >= 0 /\ result.probability <= 100
    /\ result.latency_ms >= 0

PredictResponse(result) == [k \in PredictResponseFields |-> result[k]]

PredictResult(m, features, request_id, latency_ms) ==
    [prediction |-> ModelPredict(m, features),
     probability |-> np_max(ModelPredictProba(m, features)),
     latency_ms |-> latency_ms,
     model |-> MODEL_NAME,
     version |-> MODEL_VERSION,
     request_id |-> request_id]

predict_handler_FaultEscapes(m, features, request_id, latency_ms, fault, log_raised) ==
    IF ModelUnavailable(m)
    THEN [status |-> 503, inferred |-> FALSE, body |-> [detail |-> "Model not loaded"]]
    ELSE IF Len(features) # NumFeatures
    THEN [status |-> 422, inferred |-> FALSE,
          body |-> [detail |-> "Features must have 4 dimensions"]]
    ELSE IF fault
    THEN [status |-> 500, inferred |-> FALSE, body |-> [detail |-> "Internal Server Error"]]
    ELSE IF log_raised
    THEN [status |-> 500, inferred |-> TRUE, body |-> [detail |-> "Internal Server Error"]]
    ELSE [status |-> 200, inferred |-> TRUE,
          body |-> PredictResult(m, features, request_id, latency_ms)]

\* the body of the predict handler: what it returns or raises. inferred says
\* that the classifier answered, so that the prediction is counted and logged.
predict_handler(m, features, request_id, latency_ms, fault, log_raised) ==
    IF ModelUnavailable(m)
    THEN [status |-> 503, inferred |-> FALSE, body |-> [detail |-> "Model not loaded"]]
    ELSE IF Len(features) # NumFeatures
    THEN [status |-> 422, inferred |-> FALSE,
          body |-> [detail |-> "Features must have 4 dimensions"]]
    ELSE IF fault
    THEN [status |-> 500, inferred |-> FALSE, body |-> [detail |-> "str(e)"]]
    ELSE IF log_raised
    THEN [status |-> 500, inferred |-> TRUE, body |-> [detail |-> "str(e)"]]
    ELSE [status |-> 200, inferred |-> TRUE,
          body |-> PredictResult(m, features, request_id, latency_ms)]

record_prediction_OncePerCall(classes) ==
    PREDICTIONS_TOTAL' =
        [c \in DOMAIN PREDICTIONS_TOTAL |->
            PREDICTIONS_TOTAL[c] + (IF classes # <<>> /\ classes[1] = c THEN 1 ELSE 0)]

\* record_prediction, once for every class of the sequence
record_prediction(classes) ==
    PREDICTIONS_TOTAL' =
        [c \in DOMAIN PREDICTIONS_TOTAL |->
            PREDICTIONS_TOTAL[c] + Cardinality({i \in 1..Len(classes) : classes[i] = c})]

\* the requests whose handling reaches the classifier
Infers(req) == PredictRequestValid(req) /\ model # None /\ ~req.fault

\* fault and elapsed are drawn only where the handler reads them, and the
\* connection and the clock only where log_prediction is called
predict ==
    /\ started /\ nreq < MaxRequests
    /\ \E req \in {r \in PredictRequests :
                     ~Infers(r) => (r.elapsed = 0 /\ (r.fault => PredictRequestValid(r)
                                                                  /\ model # None))} :
       \E conn_ok \in IF Infers(req) THEN BOOLEAN ELSE {TRUE} :
       \E now \in IF Infers(req) /\ conn_ok /\ table_exists THEN Times ELSE {1} :
          IF ~PredictRequestValid(req)
          THEN /\ Serve(req, 422, [detail |-> "value is not a valid list of 4 floats"])
               /\ UNCHANGED <<recorder, store>>
          ELSE LET request_id == nreq + 1
                   result == PredictResult(model, req.features, request_id, req.elapsed)
                   args == PredictionArgs(request_id, MODEL_NAME, MODEL_VERSION,
                                          req.features, result.prediction,
                                          result.probability, req.elapsed, now)
                   logged == log_prediction(conn_ok, request_id, MODEL_NAME, MODEL_VERSION,
                                            req.features, result.prediction,
                                            result.probability, req.elapsed, now)
                   out == predict_handler(model, req.features, request_id, req.elapsed,
                                          req.fault, Infers(req) /\ logged.raised)
               IN  /\ track_request("/predict", out.status, out.status # 200)
                   /\ BATCH_SIZE' = BATCH_SIZE
                   /\ UNCHANGED <<table_exists, indexes>>
                   /\ IF out.inferred
                      THEN /\ record_prediction(<<result.prediction>>)
                           /\ predictions' = logged.rows
                           /\ appended' = (IF logged.ret THEN Append(appended, args)
                                           ELSE appended)
                      ELSE UNCHANGED <<PREDICTIONS_TOTAL, predictions, appended>>
                   /\ IF out.status = 200
                      THEN IF PredictResponseValid(out.body)
                           THEN Serve(Met(req, conn_ok), 200, PredictResponse(out.body))
                           ELSE Serve(Met(req, conn_ok), 500, [detail |-> "Internal Server Error"])
                      ELSE Serve(Met(req, conn_ok), out.status, out.body)
    /\ UNCHANGED <<config, connections, training, started, handle>>

\* ------------------------------------------------------------------------
\* POST /predict-batch
\* ------------------------------------------------------------------------
\* np.array(request.features).shape: two-dimensional only when there is a
\* row and all rows have one length
np_shape(rows) ==
    IF rows # <<>> /\ \A i \in 1..Len(rows) : Len(rows[i]) = Len(rows[1])
    THEN <<Len(rows), Len(rows[1])>>
    ELSE <<Len(rows)>>

\* model.predict(features) and np.max(model.predict_proba(features), axis=1),
\* turned into lists row by row
batch_predictions_Reversed(m, rows) ==
    [i \in 1..Len(rows) |-> ModelPredict(m, rows[Len(rows) + 1 - i])]

batch_predictions(m, rows) == [i \in 1..Len(rows) |-> ModelPredict(m, rows[i])]

batch_probabilities(m, rows) ==
    [i \in 1..Len(rows) |-> np_max(ModelPredictProba(m, rows[i]))]

\* the body of the predict_batch handler: every exception raised inside the
\* try block, the HTTPException(422) included, is caught by "except Exception"
\* and raised again as HTTPException(500)
predict_batch_handler(m, rows, latency_ms, fault) ==
    IF ModelUnavailable(m)
    THEN [status |-> 503, body |-> [detail |-> "Model not loaded"]]
    ELSE IF Len(np_shape(rows)) < 2
    THEN [status |-> 500, body |-> [detail |-> "tuple index out of range"]]
    ELSE IF np_shape(rows)[2] # NumFeatures
    THEN [status |-> 500, body |-> [detail |-> "422: Features must have 4 dimensions"]]
    ELSE IF fault
    THEN [status |-> 500, body |-> [detail |-> "str(e)"]]
    ELSE [status |-> 200,
          body |-> [predictions |-> batch_predictions(m, rows),
                    probabilities |-> batch_probabilities(m, rows),
                    latency_ms |-> latency_ms,
                    model |-> MODEL_NAME,
                    version |-> MODEL_VERSION]]

record_batch_prediction(batch_size) == BATCH_SIZE' = Append(BATCH_SIZE, batch_size)

BatchRequests ==
    {Req("/predict-batch", TRUE, rows, 0, fault, elapsed) :
        rows \in Batches, fault \in BOOLEAN, elapsed \in Latencies}

BatchInfers(req) ==
    model # None /\ np_shape(req.features) = <<Len(req.features), NumFeatures>>
    /\ ~req.fault

predict_batch ==
    /\ started /\ nreq < MaxRequests
    /\ \E req \in {r \in BatchRequests :
                     ~BatchInfers(r) =>
                        (r.elapsed = 0 /\ (r.fault => model # None
                            /\ np_shape(r.features) = <<Len(r.features), NumFeatures>>))} :
          LET out == predict_batch_handler(model, req.features, req.elapsed, req.fault)
          IN  /\ track_request("/predict-batch", out.status, out.status # 200)
              /\ IF out.status = 200
                 THEN /\ record_batch_prediction(Len(out.body.predictions))
                      /\ record_prediction(out.body.predictions)
                 ELSE UNCHANGED <<BATCH_SIZE, PREDICTIONS_TOTAL>>
              /\ Serve(req, out.status, out.body)
    /\ UNCHANGED <<config, connections, training, started, handle, store>>

\* ------------------------------------------------------------------------
\* GET /metrics, GET /info, GET /logs
\* ------------------------------------------------------------------------
InfoBody ==
    [model_name |-> MODEL_NAME, version |-> MODEL_VERSION,
     environment |-> ENVIRONMENT, canary_percentage |-> CANARY_PERCENTAGE]

\* InfoResponse as response_model: canary_percentage has ge=0, le=100
InfoResponseValid(result) ==
    result.canary_percentage >= 0 /\ result.canary_percentage <= 100

metrics ==
    /\ started /\ nreq < MaxRequests
    /\ track_request("/metrics", 200, FALSE)
    /\ Serve(Get("/metrics"), 200, InfoBody)
    /\ UNCHANGED <<config, connections, training, started, handle, PREDICTIONS_TOTAL, BATCH_SIZE, store>>

info ==
    /\ started /\ nreq < MaxRequests
    /\ track_request("/info", 200, FALSE)
    /\ IF InfoResponseValid(InfoBody)
       THEN Serve(Get("/info"), 200, InfoBody)
       ELSE Serve(Get("/info"), 500, [detail |-> "Internal Server Error"])
    /\ UNCHANGED <<config, connections, training, started, handle, PREDICTIONS_TOTAL, BATCH_SIZE, store>>

get_logs ==
    /\ started /\ nreq < MaxRequests
    /\ \E limit \in Limits, conn_ok \in BOOLEAN :
          LET logs == fetchall(get_predictions(conn_ok, limit))
          IN /\ track_request("/logs", 200, FALSE)
             /\ Serve(Req("/logs", TRUE, <<>>, limit, FALSE, 0), 200, [count |-> Len(logs), logs |-> logs])
    /\ UNCHANGED <<config, connections, training, started, handle, PREDICTIONS_TOTAL, BATCH_SIZE, store>>

\* ------------------------------------------------------------------------
\* The log store called directly
\* ------------------------------------------------------------------------
\* the records a caller appends: log_prediction is called by predict, with
\* the features of a request that passed the validation of PredictRequest
AppendArgs ==
    {PredictionArgs(id, MODEL_NAME, "1.0.0", f, ModelPredict(1, f), np_max(ModelPredictProba(1, f)), 1, t) :
        id \in AppendIds, t \in Times,
        f \in {g \in FeatureRows : PredictRequestValid(Req("/predict", TRUE, g, 0, FALSE, 0))}}

\* a call of log_prediction
append ==
    /\ Len(predictions) < MaxRows
    /\ \E conn_ok \in BOOLEAN, a \in AppendArgs :
          LET out == log_prediction(conn_ok, a.request_id, a.model_name, a.model_version, a.features, a.prediction, a.probability, a.latency_ms, a.timestamp)
          IN  /\ predictions' = out.rows
              /\ appended' = (IF out.ret THEN Append(appended, a) ELSE appended)
              /\ request' = StoreCall("log_prediction", conn_ok, 0, a)
              /\ response' = [ret |-> out.ret, raised |-> out.raised]
    /\ UNCHANGED <<config, connections, training, started, handle, recorder, table_exists, indexes, nreq>>

recent_Consuming ==
    /\ \E conn_ok \in BOOLEAN, limit \in Limits :
          /\ request' = StoreCall("get_predictions", conn_ok, limit, NoArgs)
          /\ response' = [ret |-> fetchall(get_predictions(conn_ok, limit))]
          /\ predictions' = (IF conn_ok THEN <<>> ELSE predictions)
    /\ UNCHANGED <<config, connections, training, started, handle, recorder, table_exists, indexes, appended, nreq>>

\* a call of get_predictions
recent ==
    /\ \E conn_ok \in BOOLEAN, limit \in Limits :
          /\ request' = StoreCall("get_predictions", conn_ok, limit, NoArgs)
          /\ response' = [ret |-> fetchall(get_predictions(conn_ok, limit))]
    /\ UNCHANGED <<config, connections, training, started, handle, recorder, store, nreq>>

StoreNext ==
    \/ init_db
    \/ append
    \/ recent

StoreSpec == Init /\ [][StoreNext]_vars

Next ==
    \/ startup_event
    \/ healthz
    \/ predict
    \/ predict_batch
    \/ metrics
    \/ info
    \/ get_logs

Spec == Init /\ [][Next]_vars

\* ------------------------------------------------------------------------
\* The handlers on the event loop of the server process
\* ------------------------------------------------------------------------
\* Every handler is an "async def" that the process runs on its one event
\* loop. A handler gives the loop back only at an await, and the handlers
\* await nothing: model.predict, log_prediction and get_predictions are
\* plain calls made on the loop.

\* the endpoints whose handler runs the classifier or writes the log
InferringEndpoints == {"/predict", "/predict-batch"}

\* the event loop is running no handler
LoopIdle == \A c \in 1..MaxConnections : connections[c].phase \notin {"running", "blocked"}

\* a request arrives: its handler is scheduled on the loop
accept(c) ==
    /\ connections[c].phase = "closed"
    /\ \E e \in Endpoints :
          connections' = [connections EXCEPT ![c] = [endpoint |-> e, phase |-> "accepted"]]
    /\ UNCHANGED <<config, started, handle, recorder, store, training, nreq, request, response>>

\* the loop starts a scheduled handler when it is running none
run_handler(c) ==
    /\ connections[c].phase = "accepted"
    /\ LoopIdle
    /\ connections' = [connections EXCEPT ![c].phase = "running"]
    /\ UNCHANGED <<config, started, handle, recorder, store, training, nreq, request, response>>

\* model.predict or log_prediction, called by the handler, does not return
call_blocks(c) ==
    /\ connections[c].phase = "running"
    /\ connections[c].endpoint \in InferringEndpoints
    /\ connections' = [connections EXCEPT ![c].phase = "blocked"]
    /\ UNCHANGED <<config, started, handle, recorder, store, training, nreq, request, response>>

\* the handler returns or raises, and the request is answered
handler_returns(c) ==
    /\ connections[c].phase = "running"
    /\ connections' = [connections EXCEPT ![c].phase = "answered"]
    /\ UNCHANGED <<config, started, handle, recorder, store, training, nreq, request, response>>

LoopNext ==
    \/ \E c \in 1..MaxConnections : accept(c)
    \/ \E c \in 1..MaxConnections : run_handler(c)
    \/ \E c \in 1..MaxConnections : call_blocks(c)
    \/ \E c \in 1..MaxConnections : handler_returns(c)

LoopSpec == Init /\ [][LoopNext]_vars

\* ------------------------------------------------------------------------
\* The training pipeline (train/main_loop_models.py)
\* ------------------------------------------------------------------------
\* MODELS, in the order of the loop, and the registry name of each
MODELS == <<"logistic_regression", "random_forest", "svm">>

RegistryName(name) ==
    CASE name = "logistic_regression" -> "demo-iris-LR"
      [] name = "random_forest" -> "demo-iris-RF"
      [] OTHER -> "demo-iris-SVM"

\* accuracies on the test set, as 100 * accuracy
Accuracies == {90, 93, 95}

\* the registries main() may find: the tracking URI it sets is a new
\* temporary store, and the model registry is that store unless
\* MLFLOW_REGISTRY_URI names another, which may hold versions already
PriorRegistries ==
    {<<>>} \cup {<<[name |-> RegistryName(MODELS[i]), version |-> 1, source |-> 0,
                    stage |-> stage]>> : i \in 1..Len(MODELS),
                                         stage \in {"Production", "Staging"}}

\* main() up to the loop: tracking URI, experiment, data
main_begin ==
    /\ main_pc = "start"
    /\ main_pc' = "loop"
    /\ registry' \in PriorRegistries
    /\ UNCHANGED <<config, connections, started, handle, recorder, store, nreq, request, response>>
    /\ UNCHANGED <<runs, all_results, best_result, registered>>

\* the dict train_model_pipeline returns
TrainResult(name, run_id, accuracy) ==
    [model |-> name, run_id |-> run_id, registry_name |-> RegistryName(name),
     metrics |-> [accuracy |-> accuracy]]

\* one pass of the loop of run_all_models_loop: train_model_pipeline for the
\* next model. When training or evaluation raises, the run is ended as
\* FAILED and the exception is raised again: it leaves the loop and main().
train_model_pipeline ==
    /\ main_pc = "loop" /\ Len(all_results) < Len(MODELS)
    /\ LET name == MODELS[Len(all_results) + 1]
           run_id == Len(runs) + 1
       IN  \/ \E accuracy \in Accuracies :
                /\ runs' = Append(runs, [run_id |-> run_id, model |-> name, status |-> "FINISHED"])
                /\ all_results' = Append(all_results, TrainResult(name, run_id, accuracy))
                /\ main_pc' = main_pc
           \/ /\ runs' = Append(runs, [run_id |-> run_id, model |-> name, status |-> "FAILED"])
              /\ all_results' = all_results
              /\ main_pc' = "raised"
    /\ UNCHANGED <<config, connections, started, handle, recorder, store, nreq, request, response>>
    /\ UNCHANGED <<best_result, registry, registered>>

RECURSIVE LastMaximum(_, _, _)
LastMaximum(all, i, best) ==
    IF i > Len(all) THEN best
    ELSE LastMaximum(all, i + 1,
                     IF all[i].metrics.accuracy >= all[best].metrics.accuracy
                     THEN i ELSE best)

max_LastMaximum(all) == all[LastMaximum(all, 2, 1)]

\* the loop of max: an item replaces the best so far only when its key is
\* greater
RECURSIVE MaxFrom(_, _, _)
MaxFrom(all, i, best) ==
    IF i > Len(all) THEN best
    ELSE MaxFrom(all, i + 1,
                 IF all[i].metrics.accuracy > all[best].metrics.accuracy
                 THEN i ELSE best)

\* max(all_results, key=lambda x: x["metrics"]["accuracy"])
max(all) == all[MaxFrom(all, 2, 1)]

\* main(), "Find best model"
find_best ==
    /\ main_pc = "loop" /\ Len(all_results) = Len(MODELS)
    /\ best_result' = max(all_results)
    /\ main_pc' = "register"
    /\ UNCHANGED <<config, connections, started, handle, recorder, store, nreq, request, response>>
    /\ UNCHANGED <<runs, all_results, registry, registered>>

\* the versions of a registered model in a registry
VersionsOf(reg, name) == {i \in 1..Len(reg) : reg[i].name = name}

\* register_model: mlflow.register_model adds the next version of the name,
\* in no stage
register_model(reg, model_uri, model_name) ==
    Append(reg, [name |-> model_name,
                 version |-> Cardinality(VersionsOf(reg, model_name)) + 1,
                 source |-> model_uri, stage |-> "None"])

mark_for_deployment_Nothing(reg, model_name, version, stage) == reg

mark_for_deployment_ArchivesExisting(reg, model_name, version, stage) ==
    [i \in 1..Len(reg) |->
        IF reg[i].name = model_name /\ reg[i].version = version
        THEN [reg[i] EXCEPT !.stage = stage]
        ELSE IF reg[i].name = model_name /\ reg[i].stage = stage
        THEN [reg[i] EXCEPT !.stage = "Archived"]
        ELSE reg[i]]

\* mark_for_deployment: transition_model_version_stage with
\* archive_existing_versions=False changes the stage of that version only
mark_for_deployment(reg, model_name, version, stage) ==
    [i \in 1..Len(reg) |->
        IF reg[i].name = model_name /\ reg[i].version = version
        THEN [reg[i] EXCEPT !.stage = stage]
        ELSE reg[i]]

register_best_model_Raises ==
    /\ main_pc = "register"
    /\ \E registers \in BOOLEAN :
       \E marks \in IF registers THEN BOOLEAN ELSE {FALSE} :
          LET name == best_result.registry_name
              added == register_model(registry, best_result.run_id, name)
              version == added[Len(added)].version
              with_version == best_result @@ ("model_version" :> version)
          IN  /\ registry' =
                    IF ~registers THEN registry
                    ELSE IF ~marks THEN added
                    ELSE mark_for_deployment(added, name, version, "Production")
              /\ registered' = (IF registers /\ marks THEN version ELSE None)
              /\ best_result' = (IF registers /\ marks THEN with_version ELSE best_result)
              /\ all_results' =
                    [i \in 1..Len(all_results) |->
                        IF registers /\ marks /\ all_results[i] = best_result
                        THEN with_version ELSE all_results[i]]
              /\ main_pc' = (IF registers /\ marks THEN "done" ELSE "raised")
    /\ UNCHANGED <<config, connections, started, handle, recorder, store, nreq, request, response>>
    /\ UNCHANGED runs

\* register_best_model, and main() up to its return: register_model, then
\* mark_for_deployment; when either raises, the exception is caught and
\* register_best_model returns None. With a version returned, main() writes
\* it into best_result, which is the dict held in all_results. main()
\* returns all_results in either case.
register_best_model ==
    /\ main_pc = "register"
    /\ \E registers \in BOOLEAN :
       \E marks \in IF registers THEN BOOLEAN ELSE {FALSE} :
          LET name == best_result.registry_name
              added == register_model(registry, best_result.run_id, name)
              version == added[Len(added)].version
              with_version == best_result @@ ("model_version" :> version)
          IN  /\ registry' =
                    IF ~registers THEN registry
                    ELSE IF ~marks THEN added
                    ELSE mark_for_deployment(added, name, version, "Production")
              /\ registered' = (IF registers /\ marks THEN version ELSE None)
              /\ best_result' = (IF registers /\ marks THEN with_version ELSE best_result)
              /\ all_results' =
                    [i \in 1..Len(all_results) |->
                        IF registers /\ marks /\ all_results[i] = best_result
                        THEN with_version ELSE all_results[i]]
    /\ main_pc' = "done"
    /\ UNCHANGED <<config, connections, started, handle, recorder, store, nreq, request, response>>
    /\ UNCHANGED runs

TrainNext ==
    \/ main_begin
    \/ train_model_pipeline
    \/ find_best
    \/ register_best_model

TrainSpec == Init /\ [][TrainNext]_vars

\* ------------------------------------------------------------------------
\* Properties
\* ------------------------------------------------------------------------
IsPredict == request.endpoint = "/predict"
IsBatch == request.endpoint = "/predict-batch"
Loaded == model # None

\* C1: a POST /predict whose features are not a list of exactly 4 numbers is
\* answered 422, with the model loaded and with it unloaded.
C1_InvalidFeaturesAnswered422 ==
    (IsPredict /\ (~request.wellTyped \/ Len(request.features) # NumFeatures))
        => response.status = 422

C1_Witness ==
    /\ IsPredict /\ request.wellTyped /\ Len(request.features) > NumFeatures
    /\ ~Loaded /\ response.status = 422

\* C2: while the model is unloaded every schema-valid predict request and
\* every predict-batch request is answered 503, and the step counts no
\* prediction, observes no batch size and stores no record.
C2_UnloadedAnswers503 ==
    [][(/\ started /\ model = None /\ nreq' = nreq + 1
        /\ \/ request'.endpoint = "/predict" /\ PredictRequestValid(request')
           \/ request'.endpoint = "/predict-batch")
       => (/\ response'.status = 503
           /\ PREDICTIONS_TOTAL' = PREDICTIONS_TOTAL
           /\ BATCH_SIZE' = BATCH_SIZE
           /\ predictions' = predictions)]_vars

C2_Witness ==
    /\ ~Loaded /\ IsBatch /\ Len(request.features) = MaxBatch
    /\ np_shape(request.features) = <<MaxBatch, NumFeatures>>
    /\ response.status = 503

\* a batch the validator must refuse: no rows, or a row that has not 4 features
BadBatch(rows) == rows = <<>> \/ \E i \in 1..Len(rows) : Len(rows[i]) # NumFeatures

\* C3: with the model loaded, a predict-batch request with a row that has not
\* exactly 4 features (unequal rows and the empty batch included) is
\* answered 422.
C3_BadBatchAnswered422 ==
    (IsBatch /\ Loaded /\ BadBatch(request.features)) => response.status = 422

\* what predict answers for a valid request to a loaded model, from the
\* request and the model alone
PredictAnswer ==
    IF request.fault \/ request.elapsed < 0
    THEN [status |-> 500, body |-> response.body]
    ELSE [status |-> 200,
          body |-> [prediction |-> ModelPredict(model, request.features),
                    probability |-> SeqMax(ModelPredictProba(model, request.features)),
                    latency_ms |-> request.elapsed,
                    model |-> MODEL_NAME,
                    version |-> MODEL_VERSION]]

\* C4: for a predict request with 4 features and the model loaded, the status
\* and the body are decided by the request and the model, whatever became of
\* the write to the log store.
C4_LogFailureLeavesResponse ==
    (IsPredict /\ PredictRequestValid(request) /\ Loaded) => response = PredictAnswer

\* a 200 whose record did not reach the store
C4_Witness ==
    /\ IsPredict /\ Loaded /\ response.status = 200
    /\ nreq \notin RequestIds(predictions)

\* C5: a 200 from POST /predict carries the six fields prediction,
\* probability, latency_ms, model, version and request_id.
C5_BodyHasRequestId ==
    (IsPredict /\ response.status = 200)
        => (/\ DOMAIN response.body = PredictResponseFields \cup {"request_id"}
            /\ response.body.request_id = nreq)

\* C6: a 200 from predict has a class in 0..2, the maximum class probability,
\* within [0, 1], and a latency that is not negative.
C6_PredictionInRange ==
    (IsPredict /\ response.status = 200)
        => (/\ response.body.prediction \in 0..(NumClasses - 1)
            /\ response.body.probability
                 = SeqMax(ModelPredictProba(model, request.features))
            /\ response.body.probability >= 0 /\ response.body.probability <= 100
            /\ response.body.latency_ms >= 0)

C6_Witness ==
    /\ IsPredict /\ response.status = 200 /\ Len(request.features) = NumFeatures
    /\ response.body.probability < 100 /\ response.body.latency_ms = 0

\* C7: a 200 from predict-batch for n rows has n predictions and n
\* probabilities, the i-th of each being those of row i.
C7_BatchKeepsOrder ==
    (IsBatch /\ response.status = 200)
        => (/\ Len(response.body.predictions) = Len(request.features)
            /\ Len(response.body.probabilities) = Len(request.features)
            /\ \A i \in 1..Len(request.features) :
                  /\ response.body.predictions[i]
                       = ModelPredict(model, request.features[i])
                  /\ response.body.probabilities[i]
                       = SeqMax(ModelPredictProba(model, request.features[i])))

C7_Witness ==
    /\ IsBatch /\ response.status = 200 /\ Len(request.features) = MaxBatch
    /\ response.body.predictions[1] # response.body.predictions[MaxBatch]
    /\ response.body.probabilities[1] # response.body.probabilities[MaxBatch]

\* C8: GET /healthz answers 200 with status ok, the environment and the model
\* name exactly when the model is loaded, and 503 when it is not.
C8_HealthzIffLoaded ==
    request.endpoint = "/healthz"
        => (/\ Loaded <=> response.status = 200
            /\ ~Loaded <=> response.status = 503
            /\ response.status = 200
                 => response.body = [status |-> "ok", environment |-> ENVIRONMENT,
                                     model |-> MODEL_NAME])

C8_Witness == request.endpoint = "/healthz" /\ ~Loaded /\ response.status = 503

\* C9: once the startup event has run, no step changes the model handle or
\* MODEL_VERSION.
C9_HandleFixedAfterStartup ==
    [][started => (model' = model /\ MODEL_VERSION' = MODEL_VERSION)]_vars

C9_Witness == started /\ Loaded /\ nreq = MaxRequests /\ MODEL_VERSION = "1.0.0"

InfoOrMetricsStep ==
    nreq' = nreq + 1 /\ request'.endpoint \in {"/info", "/metrics"}

\* C10 as stated: info and metrics always answer 200 and leave the model
\* handle, the log store and the metrics recorder as they were.
C10_InfoMetricsNoSideEffects ==
    [][InfoOrMetricsStep
       => (/\ response'.status = 200
           /\ UNCHANGED <<handle, store, recorder>>)]_vars

\* C10, amended: metrics always answers 200 and info answers 200 when the
\* configured canary percentage is within 0..100 (500 otherwise), the body
\* being the model name, version, environment and canary percentage; neither
\* changes the configuration, the model handle or the log store; in the
\* metrics recorder the wrapper adds one latency observation and one count of
\* status 200 for the endpoint and samples the system gauges, and nothing
\* else changes.
C10_InfoMetricsOnlyInstrumented ==
    [][InfoOrMetricsStep
       => (/\ response'.status =
                IF request'.endpoint = "/info" /\ ~(CANARY_PERCENTAGE \in 0..100)
                THEN 500 ELSE 200
           /\ response'.status = 200
                => response'.body = [model_name |-> MODEL_NAME, version |-> MODEL_VERSION,
                                     environment |-> ENVIRONMENT,
                                     canary_percentage |-> CANARY_PERCENTAGE]
           /\ UNCHANGED <<config, connections, training, handle, store, ERRORS_TOTAL, PREDICTIONS_TOTAL, BATCH_SIZE>>
           /\ REQUEST_LATENCY' =
                [REQUEST_LATENCY EXCEPT ![request'.endpoint] = @ + 1]
           /\ REQUEST_COUNT' =
                [REQUEST_COUNT EXCEPT ![<<request'.endpoint, 200>>] = @ + 1]
           /\ SYSTEM_SAMPLED')]_vars

C10_Witness ==
    /\ request.endpoint = "/info" /\ ~Loaded /\ response.status = 200
    /\ REQUEST_COUNT[<<"/info", 200>>] = 1

\* ------------------------------------------------------------------------
\* Properties of the log store
\* ------------------------------------------------------------------------
IsRecent == request.endpoint = "get_predictions"
IsAppend == request.endpoint = "log_prediction"
IsInitDb == request.endpoint = "init_db"

\* the last call got a connection and found the table
Reached == request.conn_ok /\ table_exists

SortedDesc(logs) ==
    \A i, j \in 1..Len(logs) :
       i < j => logs[i].timestamp.value >= logs[j].timestamp.value

\* logs holds stored records, each once, and no stored record left out is
\* more recent than a record returned
MostRecentOf(logs, rows) ==
    /\ \A i \in 1..Len(logs) : \E j \in 1..Len(rows) : logs[i] = RowDict(DB_DRIVER, rows[j])
    /\ \A i, j \in 1..Len(logs) : i # j => logs[i] # logs[j]
    /\ \A j \in 1..Len(rows) :
          (\A i \in 1..Len(logs) : logs[i] # RowDict(DB_DRIVER, rows[j]))
             => \A i \in 1..Len(logs) :
                   logs[i].timestamp.value >= rows[j].timestamp.value

\* C11: whatever limit is passed to get_predictions, the result has at most
\* limit records (none when limit is negative), they are the most recent
\* stored records and come by timestamp descending; without a connection the
\* result is the empty list.
C11_RecentAtMostLimit ==
    IsRecent
        => (/\ Len(response.ret) <= (IF request.limit < 0 THEN 0 ELSE request.limit)
            /\ SortedDesc(response.ret)
            /\ MostRecentOf(response.ret, predictions)
            /\ ~request.conn_ok => response.ret = <<>>)

\* the records appended with True other than the k-th whose timestamps
\* satisfy Later with respect to the k-th
Others(k, Later(_, _)) ==
    {j \in 1..Len(appended) :
        j # k /\ Later(appended[j].timestamp, appended[k].timestamp)}

Holds(logs, a) == \E i \in 1..Len(logs) : logs[i].request_id = a.request_id

BeforeEarlier(logs, a) ==
    \A i, j \in 1..Len(logs) :
       (logs[i].request_id = a.request_id /\ logs[j].timestamp.value < a.timestamp)
          => i < j

\* C12 as stated: every get_predictions call after a record was appended
\* with True puts it before the records with an earlier timestamp and
\* returns it when fewer than limit stored records have a later timestamp.
C12_AppendedAlwaysSeen ==
    IsRecent
        => \A k \in 1..Len(appended) :
              /\ BeforeEarlier(response.ret, appended[k])
              /\ Cardinality(Others(k, LAMBDA t, u : t > u)) < request.limit
                    => Holds(response.ret, appended[k])

\* C12, amended: a get_predictions call that got a connection, made after a
\* record was appended with True, returns the records by timestamp
\* descending, so that record comes before every returned record with an
\* earlier timestamp, and returns it when fewer than limit of the other
\* stored records have a timestamp later than or equal to its own; a call
\* without a connection returns no record at all.
C12_AppendedSeenWhenReached ==
    IsRecent
        => (/\ ~request.conn_ok => response.ret = <<>>
            /\ request.conn_ok
                 => \A k \in 1..Len(appended) :
                       /\ BeforeEarlier(response.ret, appended[k])
                       /\ Cardinality(Others(k, LAMBDA t, u : t >= u)) < request.limit
                             => Holds(response.ret, appended[k]))

\* the later of two stored records returned alone
C12_Witness ==
    /\ IsRecent /\ request.limit = 1 /\ Len(appended) = 2
    /\ appended[1].timestamp < appended[2].timestamp
    /\ Len(response.ret) = 1
    /\ response.ret[1].request_id = appended[2].request_id

PredictRecord(req, body, rows, now) ==
    [id |-> Len(rows) + 1,
     request_id |-> nreq + 1,
     model_name |-> MODEL_NAME,
     model_version |-> MODEL_VERSION,
     features |-> SqlFeatures(DB_DRIVER, req.features),
     prediction |-> body.prediction,
     probability |-> body.probability,
     latency_ms |-> body.latency_ms,
     timestamp |-> SqlTimestamp(DB_DRIVER, now)]

\* C14: a 200 from predict that got a connection to a store with the table
\* appends one record with its request id, features, class, probability and
\* latency, and a 200 from predict-batch appends one record for each row.
C14_EveryPredictionLogged ==
    [][(nreq' = nreq + 1 /\ response'.status = 200 /\ table_exists)
       => (/\ (request'.endpoint = "/predict" /\ request'.conn_ok)
                 => \E now \in Times :
                       predictions' = Append(predictions,
                           PredictRecord(request', response'.body, predictions, now))
           /\ request'.endpoint = "/predict-batch"
                 => (/\ Len(predictions') = Len(predictions) + Len(request'.features)
                     /\ \A i \in 1..Len(request'.features) :
                           /\ RowDict(DB_DRIVER, predictions'[Len(predictions) + i]).features
                                = request'.features[i]
                           /\ predictions'[Len(predictions) + i].prediction
                                = response'.body.predictions[i]))]_vars

\* C15: no step changes or removes a stored record.
C15_AppendOnly ==
    [][/\ Len(predictions') >= Len(predictions)
       /\ \A i \in 1..Len(predictions) : predictions'[i] = predictions[i]]_vars

\* init_db called on a full table
C15_Witness ==
    /\ IsInitDb /\ request.conn_ok /\ Len(predictions) = MaxRows
    /\ predictions[1].request_id # predictions[MaxRows].request_id

\* C16: no two stored records have one request_id, and the features of every
\* stored record are 4 numbers.
C16_UniqueIdsFourFeatures ==
    /\ \A i, j \in 1..Len(predictions) :
          predictions[i].request_id = predictions[j].request_id => i = j
    /\ \A i \in 1..Len(predictions) :
          Len(RowDict(DB_DRIVER, predictions[i]).features) = NumFeatures

\* an append refused for its request_id
C16_Witness ==
    /\ IsAppend /\ Reached /\ ~response.ret
    /\ request.args.request_id \in RequestIds(predictions)
    /\ Len(appended) >= 1

\* C17: the features of a record get_predictions returns are the features
\* log_prediction was given for it, in sqlite and in postgres.
C17_FeaturesRoundTrip ==
    IsRecent
        => \A i \in 1..Len(response.ret) :
              \E k \in 1..Len(appended) :
                 /\ appended[k].request_id = response.ret[i].request_id
                 /\ appended[k].features = response.ret[i].features

\* a record read back from the JSON text of sqlite
C17_Witness ==
    /\ IsRecent /\ DB_DRIVER = "sqlite" /\ Len(response.ret) >= 1
    /\ response.ret[1].features = Row(NumFeatures, 0)
    /\ \E j \in 1..Len(predictions) :
          predictions[j].features = json_dumps(Row(NumFeatures, 0))

OtherDriver == IF DB_DRIVER = "sqlite" THEN "postgres" ELSE "sqlite"

\* the table of a backend after the appends that returned True
RECURSIVE Replay(_, _)
Replay(driver, calls) ==
    IF calls = <<>> THEN <<>>
    ELSE InsertInto(driver, TRUE, Replay(driver, SubSeq(calls, 1, Len(calls) - 1)),
                    TRUE, calls[Len(calls)]).rows

\* C18: the backend is sqlite exactly when ENVIRONMENT is not "prod", and
\* what a call returned is what the other backend returns for it after the
\* same calls.
C18_BackendsAgree ==
    /\ DB_DRIVER = "sqlite" <=> ENVIRONMENT # "prod"
    /\ IsRecent
         => response.ret \in Select(OtherDriver, table_exists, Replay(OtherDriver, appended),
                                    request.conn_ok, request.limit)
    /\ IsAppend
         => response.ret
              = InsertInto(OtherDriver, table_exists,
                           Replay(OtherDriver, IF response.ret
                                               THEN SubSeq(appended, 1, Len(appended) - 1)
                                               ELSE appended),
                           request.conn_ok, request.args).ret

\* C19: init_db returns False without a connection and changes nothing
\* then; with a connection it returns True and the table and the two indexes
\* exist; a call that finds them changes nothing; no call touches a stored
\* record.
C19_InitDbIdempotent ==
    [][request'.endpoint = "init_db"
       => (/\ predictions' = predictions
           /\ response'.ret = request'.conn_ok
           /\ request'.conn_ok => (table_exists' /\ IndexNames \subseteq indexes')
           /\ ~request'.conn_ok => UNCHANGED store
           /\ (table_exists /\ IndexNames \subseteq indexes) => UNCHANGED store)]_vars

\* init_db called again on a table that holds records
C19_Witness ==
    /\ IsInitDb /\ request.conn_ok /\ response.ret
    /\ table_exists /\ indexes = IndexNames /\ Len(predictions) >= 1

\* C28: log_prediction returns True exactly when the record was added, as
\* the last row of the table; without a connection, without the table, or
\* with a request_id already stored it returns False and the table is as it
\* was; in no case does an exception escape.
C28_AppendTrueIffAdded ==
    [][request'.endpoint = "log_prediction"
         => (/\ ~response'.raised
             /\ response'.ret <=> (predictions' # predictions)
             /\ response'.ret
                  <=> (/\ request'.conn_ok /\ table_exists
                       /\ request'.args.request_id \notin RequestIds(predictions))
             /\ response'.ret
                  => (/\ Len(predictions') = Len(predictions) + 1
                      /\ SubSeq(predictions', 1, Len(predictions)) = predictions
                      /\ predictions'[Len(predictions')].request_id
                            = request'.args.request_id)
             /\ ~response'.ret => predictions' = predictions)]_vars

\* an insert refused for a request_id that is already stored
C28_Witness ==
    /\ IsAppend /\ request.conn_ok /\ table_exists
    /\ ~response.ret /\ ~response.raised
    /\ request.args.request_id \in RequestIds(predictions)
    /\ Len(predictions) = 1

\* C29: in every state after the startup event, the version is "1.0.0" and
\* the gauge of the model is 1 exactly when the model handle is set, and the
\* version is "0.0.0" and the gauge 0 exactly when the handle is None.
C29_VersionAndGaugeFollowHandle ==
    started
        => (/\ model # None <=> (MODEL_VERSION = "1.0.0" /\ MODEL_LOADED = 1)
            /\ model = None <=> (MODEL_VERSION = "0.0.0" /\ MODEL_LOADED = 0)
            /\ MODEL_VERSION \in {"1.0.0", "0.0.0"} /\ MODEL_LOADED \in {0, 1})

\* a request served after a startup that found no model
C29_Witness ==
    /\ started /\ model = None /\ nreq >= 1
    /\ MODEL_VERSION = "0.0.0" /\ MODEL_LOADED = 0

\* the status the wrapper of track_request saw: a handler that returned has
\* 200, also when the response_model then refuses what it returned
HandlerStatus ==
    IF response.status = 500 /\ response.body = [detail |-> "Internal Server Error"]
    THEN 200 ELSE response.status

\* the request reached its handler: FastAPI answers a body that does not
\* validate before the wrapper is entered
Invoked == ~(IsPredict /\ ~PredictRequestValid(request))

\* C25: every invocation of a wrapped handler, returning or raising, adds
\* one latency observation for its endpoint and one to the request counter
\* under the endpoint and the status (200 when it returned, the status of
\* the exception when it raised), and adds one to the error counter exactly
\* when it raised.
C25_OneObservationPerInvocation ==
    [][(nreq' = nreq + 1 /\ Invoked')
         => (/\ REQUEST_LATENCY'
                  = [REQUEST_LATENCY EXCEPT ![request'.endpoint] = @ + 1]
             /\ REQUEST_COUNT'
                  = [REQUEST_COUNT EXCEPT ![<<request'.endpoint, HandlerStatus'>>] = @ + 1]
             /\ ERRORS_TOTAL'
                  = (IF HandlerStatus' # 200
                     THEN [ERRORS_TOTAL EXCEPT ![request'.endpoint] = @ + 1]
                     ELSE ERRORS_TOTAL))]_vars

\* a handler that raised: /healthz without a model
C25_Witness ==
    /\ nreq = 1 /\ request.endpoint = "/healthz" /\ response.status = 503
    /\ REQUEST_COUNT[<<"/healthz", 503>>] = 1
    /\ REQUEST_LATENCY["/healthz"] = 1
    /\ ERRORS_TOTAL["/healthz"] = 1

\* how many rows of a batch were predicted to be of class c
RowsOfClass(classes, c) == Cardinality({i \in 1..Len(classes) : classes[i] = c})

\* C26: a predict-batch answered 200 for n rows adds one batch-size
\* observation of n, and adds to the prediction counter of every class the
\* number of rows predicted to be of that class.
C26_BatchCountsEveryRow ==
    [][(nreq' = nreq + 1 /\ request'.endpoint = "/predict-batch" /\ response'.status = 200)
         => (/\ BATCH_SIZE' = Append(BATCH_SIZE, Len(request'.features))
             /\ Len(response'.body.predictions) = Len(request'.features)
             /\ \A c \in DOMAIN PREDICTIONS_TOTAL :
                   PREDICTIONS_TOTAL'[c]
                      = PREDICTIONS_TOTAL[c] + RowsOfClass(response'.body.predictions, c))]_vars

\* a batch of two rows, both predicted to be of one class
C26_Witness ==
    /\ IsBatch /\ response.status = 200
    /\ Len(request.features) = 2 /\ BATCH_SIZE = <<2>>
    /\ \E c \in DOMAIN PREDICTIONS_TOTAL :
          /\ response.body.predictions = <<c, c>>
          /\ PREDICTIONS_TOTAL[c] = 2

\* C27: with the model loaded and the input valid, an exception raised
\* inside predict is answered 500 with the message of the exception as
\* detail, not as an unhandled error of the server.
C27_PredictFaultAnswered500 ==
    (IsPredict /\ PredictRequestValid(request) /\ Loaded /\ request.fault)
        => (/\ response.status = 500
            /\ response.body = [detail |-> "str(e)"]
            /\ REQUEST_COUNT[<<"/predict", 500>>] >= 1)

\* the classifier raised on a valid request
C27_Witness ==
    /\ IsPredict /\ PredictRequestValid(request) /\ Loaded /\ request.fault
    /\ nreq = 1 /\ response.status = 500
    /\ \A c \in DOMAIN PREDICTIONS_TOTAL : PREDICTIONS_TOTAL[c] = 0

\* ------------------------------------------------------------------------
\* Properties of the training pipeline
\* ------------------------------------------------------------------------
AccuracyOf(i) == all_results[i].metrics.accuracy

\* main() has made its selection
Selected == main_pc \in {"register", "done"}

\* C20: the result selected is one of the results of the run, no result has
\* a greater accuracy, and every result before it in the order of MODELS
\* has a smaller one; for the accuracies 0.90, 0.95, 0.93 it is the second.
C20_BestIsFirstMaximum ==
    Selected
        => (/\ \E i \in 1..Len(all_results) :
                  /\ all_results[i] = best_result
                  /\ \A j \in 1..Len(all_results) : AccuracyOf(j) <= AccuracyOf(i)
                  /\ \A j \in 1..(i - 1) : AccuracyOf(j) < AccuracyOf(i)
            /\ (AccuracyOf(1) = 90 /\ AccuracyOf(2) = 95 /\ AccuracyOf(3) = 93)
                  => best_result.model = MODELS[2])

\* the maximum reached by the first and by the last model
C20_Witness ==
    /\ Selected
    /\ AccuracyOf(1) = 95 /\ AccuracyOf(2) = 90 /\ AccuracyOf(3) = 95
    /\ best_result.model = MODELS[1]

\* a run of the loop has failed
SomeRunFailed == \E i \in 1..Len(runs) : runs[i].status = "FAILED"

\* the models whose run finished
Succeeded == {runs[i].model : i \in {j \in 1..Len(runs) : runs[j].status = "FINISHED"}}

\* C21: a failed run does not end the loop: main() goes on to train the
\* remaining models, and its selection is made among exactly the models
\* whose run finished.
C21_FailureKeepsLoop ==
    /\ SomeRunFailed => main_pc \in {"loop", "register", "done"}
    /\ Selected
          => (/\ {runs[i].model : i \in 1..Len(runs)} = {MODELS[i] : i \in 1..Len(MODELS)}
              /\ {all_results[i].model : i \in 1..Len(all_results)} = Succeeded
              /\ best_result.model \in Succeeded)

\* the step of register_best_model in which registration or promotion
\* failed: no new version in Production
RegistrationFailed ==
    /\ main_pc = "register" /\ main_pc' # "register"
    /\ \/ registry' = registry
       \/ registry'[Len(registry')].stage # "Production"

\* C22: when registration or promotion fails, register_best_model returns
\* None, main() still returns, and the results and the runs are as they
\* were before.
C22_RegistrationFailureKeepsResults ==
    [][RegistrationFailed
         => (/\ registered' = None
             /\ main_pc' = "done"
             /\ all_results' = all_results
             /\ best_result' = best_result
             /\ runs' = runs)]_vars

\* main() returned three results after a registration that failed
C22_Witness ==
    /\ main_pc = "done" /\ registered = None
    /\ Len(all_results) = Len(MODELS)
    /\ VersionsOf(registry, best_result.registry_name) = {}

\* C23: the step that promotes the new version leaves every version the
\* registry already held as it was, the ones in Production included.
C23_PromotionKeepsOthers ==
    [][main_pc = "register"
         => (/\ Len(registry') >= Len(registry)
             /\ \A i \in 1..Len(registry) : registry'[i] = registry[i])]_vars

\* the winner promoted next to an earlier Production version of its name
C23_Witness ==
    /\ main_pc = "done" /\ registered = 2
    /\ Len(registry) = 2
    /\ registry[1].name = registry[2].name
    /\ registry[1].stage = "Production" /\ registry[2].stage = "Production"

\* the version added by the step, when one was added
NewVersion == registry'[Len(registry')]

\* C30: register_best_model returns a version exactly when the step added
\* that version of the winner's name and put it in Production; it returns
\* None when the registry is as before, or when the new version was added
\* and is in no stage.
C30_VersionIffRegisteredAndPromoted ==
    [][(main_pc = "register" /\ main_pc' # "register")
         => (/\ registered' # None
                  <=> (/\ Len(registry') = Len(registry) + 1
                       /\ NewVersion.stage = "Production")
             /\ registered' # None
                  => (/\ NewVersion.version = registered'
                      /\ NewVersion.name = best_result.registry_name
                      /\ NewVersion.source = best_result.run_id)
             /\ registered' = None
                  => (\/ registry' = registry
                      \/ registry' = register_model(registry, best_result.run_id,
                                                    best_result.registry_name)))]_vars

\* registered, not promoted: None returned, the version in no stage
C30_Witness ==
    /\ main_pc = "done" /\ registered = None
    /\ \E i \in 1..Len(registry) :
          /\ registry[i].source = best_result.run_id
          /\ registry[i].name = best_result.registry_name
          /\ registry[i].stage = "None"

\* ------------------------------------------------------------------------
\* Properties of the handlers on the event loop
\* ------------------------------------------------------------------------
\* the handler of the connection is inside a call that does not return
Blocked(c) == connections[c].phase = "blocked"

\* C24: a request whose inference or log write never returns does not keep
\* another request of the process from completing: while one handler is
\* blocked, every other request that has arrived can still be run.
C24_BlockedRequestIsolated ==
    \A c, d \in 1..MaxConnections :
        (Blocked(c) /\ connections[d].phase = "accepted") => ENABLED run_handler(d)
====
